---- MODULE Spec2Model ----
(***************************************************************************)
(* Model of scripts/extract.py: the four chained operations                *)
(* get_playlist_id -> get_video_ids -> extract_video_data -> save_to_json  *)
(* as run by the __main__ block, against a provider (the HTTP API), a      *)
(* clock and a file system that form the environment.                      *)
(***************************************************************************)
EXTENDS Integers, Sequences, FiniteSets, TLC

\* ------------------------------------------------------------------ bounds
\* Largest playlist the provider holds.
MaxVideos == 3
\* Largest value drawn for the module-level setting max_result (50 in the
\* source, extract.py:18); drawn from 1..MaxResult so that several pages and
\* several batches happen within MaxVideos.
MaxResult == 3
\* Calendar dates 1..MaxDate of the process-local clock.
MaxDate == 2
\* save_to_json calls followed in the writer specification.
MaxSaves == 3
\* Longest record list handed to save_to_json in the writer specification.
MaxSaveLen == 2

\* Ghost counters of requests saturate here (the code has no such limit).
MaxRequests == MaxVideos + 2

VARIABLES
    stage,          \* position of the run: which operation __main__ is in
    error,          \* class of the exception that ended the run, "none" if none
    max_result,     \* module-level max_result: page size and batch size
    playlist,       \* provider: the uploads playlist, a sequence of video ids
    provider,       \* provider: "paging" omits the cursor on the last page,
                    \*           "endless" returns a cursor on every page
    channelReply,   \* provider: body of the channels response last served
    playlistId,     \* __main__: playlistId, <<>> until get_playlist_id returns
    ids,            \* get_video_ids: the local list video_ids
    pageToken,      \* get_video_ids: pageToken, 0 is None (falsy)
    pageRequests,   \* ghost: GET requests issued by get_video_ids
    idsReturned,    \* __main__: video_ids, <<>> until returned, else <<list>>
    batchIdx,       \* extract_video_data: batches already taken from batch_list
    extracted_data, \* extract_video_data: the local list extracted_data
    detailRequests, \* ghost: id lists of the videos requests, in request order
    omitted,        \* ghost: requested ids the provider left out of replies
    lastReply,      \* ghost: status and items of the last videos response
    dataReturned,   \* __main__: video_data, <<>> until returned, else <<list>>
    saveArg,        \* save_to_json: the argument extracted_data
    today,          \* clock: the date date.today() last returned
    dirExists,      \* file system: ./data exists
    files,          \* file system: date -> file ./data/YT_data_<date>.json
    path,           \* save_to_json: the date in path, 0 before line 219
    filesAtStart,   \* ghost: files when the run (or the save call) started
    saves,          \* ghost: save_to_json calls started
    lastSaved       \* ghost: date -> the last save_to_json call that opened
                    \*        the date's file: its records, and whether it
                    \*        completed ("none": no call opened it)

vars == <<stage, error, max_result, playlist, provider, channelReply,
          playlistId, ids, pageToken, pageRequests, idsReturned, batchIdx,
          extracted_data, detailRequests, omitted, lastReply, dataReturned,
          saveArg, today, dirExists, files, path, filesAtStart, saves,
          lastSaved>>

envVars  == <<max_result, playlist, provider>>
collVars == <<ids, pageToken, pageRequests, idsReturned>>
fetchVars == <<batchIdx, extracted_data, detailRequests, omitted, lastReply,
               dataReturned>>
fsVars   == <<dirExists, files, path, lastSaved>>

\* ------------------------------------------------------------------ helpers
Min(a, b) == IF a < b THEN a ELSE b
Max(a, b) == IF a > b THEN a ELSE b
CeilDiv(n, d) == (n + d - 1) \div d

RECURSIVE Concat(_)
Concat(ss) == IF ss = <<>> THEN <<>> ELSE Head(ss) \o Concat(Tail(ss))

\* Python None, for values that are otherwise strings.
None == "None"

\* Python's seq[a:b] for 0 <= a, on a TLA+ sequence (1-based).
Slice(s, a, b) == SubSeq(s, a + 1, Min(b, Len(s)))

\* dict.get(key, default)
Get(d, k, default) == IF k \in DOMAIN d THEN d[k] ELSE default

\* requests.exceptions.RequestException and its subclasses.
RequestExceptions == {"ConnectionError", "HTTPError"}

Dates == 1..MaxDate
VideoIds == 1..MaxVideos
Playlists == {[i \in 1..n |-> i] : n \in 0..MaxVideos}

\* ------------------------------------------------------- 1. get_playlist_id
\* What the provider may answer to the channels request.
ChannelReplies ==
    {"connection_error", "http_error", "no_items_key", "zero_items",
     "no_contentDetails", "no_relatedPlaylists", "no_uploads", "ok"}

\* A reply that found no channel for the handle.
ZeroChannels == {"no_items_key", "zero_items"}

\* One channel, but a field of the expected shape is missing.
MalformedChannel == {"no_contentDetails", "no_relatedPlaylists", "no_uploads"}

\* The exception get_playlist_id ends with on a reply, "none" if it returns.
PlaylistOutcome(reply) ==
    CASE reply = "connection_error" -> "ConnectionError"
      [] reply = "http_error"       -> "HTTPError"
      [] reply = "no_items_key"     -> "KeyError"
      [] reply = "zero_items"       -> "IndexError"
      [] reply \in MalformedChannel -> "KeyError"
      [] OTHER                      -> "none"

UploadsId == "UU"

get_playlist_id ==
    /\ stage = "resolving"
    /\ \E reply \in ChannelReplies :
        /\ channelReply' = reply
        /\ error' = PlaylistOutcome(reply)
        /\ IF PlaylistOutcome(reply) = "none"
             THEN /\ playlistId' = <<UploadsId>>
                  /\ stage' = "collecting"
             ELSE /\ playlistId' = playlistId
                  /\ stage' = "failed"
    /\ UNCHANGED <<envVars, collVars, fetchVars, saveArg, today, fsVars,
                   filesAtStart, saves>>

\* --------------------------------------------------------- 2. get_video_ids
\* Offset into the playlist that a cursor stands for; no cursor is offset 0.
OffsetOf(token) == IF token = 0 THEN 0 ELSE token - 1

\* The page the provider serves at a cursor: its items and its nextPageToken
\* (0: the field is omitted). Past the end of the playlist the "endless"
\* provider serves empty pages, each with a cursor other than the last one.
PageItems(token) == Slice(playlist, OffsetOf(token), OffsetOf(token) + max_result)

NextPageToken(token) ==
    LET end == Min(OffsetOf(token) + max_result, Len(playlist))
    IN  IF end < Len(playlist) THEN end + 1
        ELSE IF provider = "paging" THEN 0
        ELSE IF token = end + 1 THEN end + 2 ELSE end + 1

\* A faulty variant: each page is put in front of what was collected.
AppendIds_prepend(video_ids, items) == items \o video_ids

\* Lines 113-115: every item's videoId is appended, in response order.
AppendIds(video_ids, items) == video_ids \o items

\* Lines 121-122: the loop goes on while the cursor is truthy.
MorePages(token) == token # 0

\* A faulty variant: the except clause returns what was accumulated so far.
ExceptReturn_partial(partial) == <<partial>>

\* Lines 127-129 and 201-203: the except clause re-raises; nothing is returned.
ExceptReturn(partial) == <<>>

\* One iteration of the while loop: one GET, then append, then the cursor;
\* without a cursor the loop breaks and the function returns.
CollectPage ==
    /\ stage = "collecting"
    /\ pageRequests' = Min(pageRequests + 1, MaxRequests)
    /\ \E status \in {"ok", "connection_error", "http_error"} :
        IF status = "ok"
          THEN /\ ids' = AppendIds(ids, PageItems(pageToken))
               /\ pageToken' = NextPageToken(pageToken)
               /\ error' = error
               /\ IF MorePages(NextPageToken(pageToken))
                    THEN UNCHANGED <<stage, idsReturned>>
                    ELSE /\ idsReturned' = <<ids'>>
                         /\ stage' = "fetching"
          ELSE /\ error' = (IF status = "http_error" THEN "HTTPError"
                            ELSE "ConnectionError")
               /\ idsReturned' = ExceptReturn(ids)
               /\ stage' = "failed"
               /\ UNCHANGED <<ids, pageToken>>
    /\ UNCHANGED <<envVars, channelReply, playlistId, fetchVars, saveArg,
                   today, fsVars, filesAtStart, saves>>

\* ---------------------------------------------------- 3. extract_video_data
\* A faulty variant: only full chunks are produced, a shorter tail is dropped.
batch_list_dropTail(video_id_lst, batch_size) ==
    [k \in 1..(Len(video_id_lst) \div batch_size) |->
        SubSeq(video_id_lst, (k - 1) * batch_size + 1, k * batch_size)]

\* Lines 154-156: the chunks video_id_lst[k : k + batch_size] for
\* k in range(0, len(video_id_lst), batch_size), in generation order.
batch_list(video_id_lst, batch_size) ==
    [k \in 1..CeilDiv(Len(video_id_lst), batch_size) |->
        Slice(video_id_lst, (k - 1) * batch_size, k * batch_size)]

\* Line 162 joins the batch with commas into the id parameter of the URL; the
\* provider reads the same list back, so the request is kept as the id list.
RequestIds(batch) == batch

StatKeys == {"viewCount", "likeCount", "commentCount"}
StatValues == {"0"}

\* The statistics objects the provider may attach: any subset of the three
\* counters (a disabled counter is left out).
StatDicts == UNION {[K -> StatValues] : K \in SUBSET StatKeys}

Snippet(v) == [title |-> <<"title", v>>, publishedAt |-> <<"publishedAt", v>>]
ContentDetails(v) == [duration |-> <<"duration", v>>]

\* Items of a videos response for video v: with a statistics object, or
\* without the statistics key.
ItemsOf(v) ==
    {[id |-> v, snippet |-> Snippet(v), contentDetails |-> ContentDetails(v),
      statistics |-> d] : d \in StatDicts}
    \cup {[id |-> v, snippet |-> Snippet(v),
           contentDetails |-> ContentDetails(v)]}

\* Subsequences of a batch: the ids the provider still serves, in order.
RECURSIVE SubSeqs(_)
SubSeqs(s) ==
    IF s = <<>> THEN {<<>>}
    ELSE LET rest == SubSeqs(Tail(s))
         IN  rest \cup {<<Head(s)>> \o r : r \in rest}

RECURSIVE ItemLists(_)
ItemLists(vs) ==
    IF vs = <<>> THEN {<<>>}
    ELSE {<<i>> \o r : i \in ItemsOf(Head(vs)), r \in ItemLists(Tail(vs))}

\* Every "items" list the provider may return for a batch.
VideoReplies(batch) == UNION {ItemLists(kept) : kept \in SubSeqs(batch)}

\* Lines 179-182 index the item with ["id"], ["snippet"], ["contentDetails"]
\* and ["statistics"]: a missing key raises KeyError.
ItemRaises(item) ==
    \E k \in {"id", "snippet", "contentDetails", "statistics"} :
        k \notin DOMAIN item

\* Lines 185-193: the record built from one item.
MapItem(item) ==
    [video_id     |-> item.id,
     title        |-> item.snippet.title,
     publishedAt  |-> item.snippet.publishedAt,
     duration     |-> item.contentDetails.duration,
     viewCount    |-> Get(item.statistics, "viewCount", None),
     likeCount    |-> Get(item.statistics, "likeCount", None),
     commentCount |-> Get(item.statistics, "commentCount", None)]

\* Number of leading items the for loop of line 178 maps before one raises.
RECURSIVE MappedPrefix(_)
MappedPrefix(items) ==
    IF items = <<>> \/ ItemRaises(Head(items)) THEN 0
    ELSE 1 + MappedPrefix(Tail(items))

\* A faulty variant: each batch's records replace the list.
AppendRecords_overwrite(data, items) ==
    [i \in 1..MappedPrefix(items) |-> MapItem(items[i])]

\* Line 196: each record is appended to extracted_data.
AppendRecords(data, items) ==
    data \o [i \in 1..MappedPrefix(items) |-> MapItem(items[i])]

Batches == batch_list(idsReturned[1], max_result)

\* One iteration of the for loop of line 160: one GET for the next batch,
\* then one record per returned item.
FetchBatch ==
    /\ stage = "fetching"
    /\ batchIdx < Len(Batches)
    /\ LET batch == Batches[batchIdx + 1] IN
        /\ detailRequests' = Append(detailRequests, RequestIds(batch))
        /\ batchIdx' = batchIdx + 1
        /\ \E status \in {"ok", "connection_error", "http_error"} :
            IF status = "ok"
              THEN \E items \in VideoReplies(batch) :
                    /\ extracted_data' = AppendRecords(extracted_data, items)
                    /\ omitted' = omitted + (Len(batch) - Len(items))
                    /\ lastReply' = [status |-> status, items |-> items]
                    /\ IF MappedPrefix(items) < Len(items)
                         THEN /\ error' = "KeyError"
                              /\ dataReturned' = ExceptReturn(extracted_data')
                              /\ stage' = "failed"
                         ELSE UNCHANGED <<error, dataReturned, stage>>
              ELSE /\ error' = (IF status = "http_error" THEN "HTTPError"
                                ELSE "ConnectionError")
                   /\ lastReply' = [status |-> status, items |-> <<>>]
                   /\ dataReturned' = ExceptReturn(extracted_data)
                   /\ stage' = "failed"
                   /\ UNCHANGED <<extracted_data, omitted>>
    /\ UNCHANGED <<envVars, channelReply, playlistId, collVars, saveArg,
                   today, fsVars, filesAtStart, saves>>

\* Line 199, and __main__ lines 241-243: the list is returned and handed to
\* save_to_json.
FetchReturn ==
    /\ stage = "fetching"
    /\ batchIdx = Len(Batches)
    /\ dataReturned' = <<extracted_data>>
    /\ saveArg' = extracted_data
    /\ saves' = saves + 1
    /\ stage' = "writing"
    /\ UNCHANGED <<error, envVars, channelReply, playlistId, collVars,
                   batchIdx, extracted_data, detailRequests, omitted,
                   lastReply, today, fsVars, filesAtStart>>

\* ---------------------------------------------------------- 4. save_to_json
\* A file of ./data: absent, or present with the tokens written so far.
Absent == [exists |-> FALSE, content |-> <<>>]
File(content) == [exists |-> TRUE, content |-> content]

\* Line 226: json.dump writes the array as a stream of chunks: the opening
\* bracket, one object per record, the closing bracket.
Doc(records) ==
    <<[tok |-> "["]>>
    \o [i \in 1..Len(records) |-> [tok |-> "object", value |-> records[i]]]
    \o <<[tok |-> "]"]>>

\* json.load of a file's content: <<records>> of a complete document, <<>>
\* of anything else (a truncated document does not parse).
Parse(content) ==
    IF /\ Len(content) >= 2
       /\ content[1] = [tok |-> "["]
       /\ content[Len(content)] = [tok |-> "]"]
       /\ \A i \in 2..(Len(content) - 1) : content[i].tok = "object"
    THEN <<[i \in 1..(Len(content) - 2) |-> content[i + 1].value]>>
    ELSE <<>>

\* A faulty variant: the file is opened without truncation and written at
\* its end.
OpenW_noTruncate(file) == File(file.content)

\* Line 225: open(path, "w") creates the file or truncates it to nothing.
OpenW(file) == File(<<>>)

\* Line 219: the path bears the date; files are keyed by the date they bear.
PathOf(date) == date

\* file.write(chunk): the chunk goes after what the file holds.
WriteChunk(file, chunk) == File(Append(file.content, chunk))

\* Lines 216-225: makedirs(exist_ok=True), the dated path, open for writing.
\* date.today() returns the date of the last call or a later one.
SaveOpen ==
    /\ stage = "writing"
    /\ path = 0
    /\ \E outcome \in {"ok", "makedirs_error", "open_error"} :
        /\ dirExists' = (dirExists \/ outcome # "makedirs_error")
        /\ IF outcome = "makedirs_error"
             THEN /\ error' = "OSError"
                  /\ stage' = "failed"
                  /\ UNCHANGED <<today, path, files, lastSaved>>
             ELSE \E now \in {d \in Dates : d >= today} :
                  /\ today' = now
                  /\ path' = PathOf(now)
                  /\ IF outcome = "ok"
                       THEN /\ files' = [files EXCEPT ![PathOf(now)] =
                                            OpenW(files[PathOf(now)])]
                            /\ lastSaved' = [lastSaved EXCEPT ![now] =
                                  [state |-> "open", records |-> saveArg]]
                            /\ UNCHANGED <<stage, error>>
                       ELSE /\ error' = "OSError"
                            /\ stage' = "failed"
                            /\ UNCHANGED <<files, lastSaved>>
    /\ UNCHANGED <<envVars, channelReply, playlistId, collVars, fetchVars,
                   saveArg, filesAtStart, saves>>

\* Line 226: json.dump writes the next chunk, or the write raises (disk full).
SaveWrite ==
    /\ stage = "writing"
    /\ path # 0
    /\ Len(files[path].content) < Len(Doc(saveArg))
    /\ \E outcome \in {"ok", "write_error"} :
        IF outcome = "ok"
          THEN /\ files' = [files EXCEPT ![path] =
                    WriteChunk(files[path],
                               Doc(saveArg)[Len(files[path].content) + 1])]
               /\ UNCHANGED <<stage, error>>
          ELSE /\ error' = "OSError"
               /\ stage' = "failed"
               /\ UNCHANGED files
    /\ UNCHANGED <<envVars, channelReply, playlistId, collVars, fetchVars,
                   saveArg, today, dirExists, path, lastSaved, filesAtStart,
                   saves>>

\* Lines 225-228: the with block closes the file after the last chunk.
SaveClose ==
    /\ stage = "writing"
    /\ path # 0
    /\ Len(files[path].content) = Len(Doc(saveArg))
    /\ stage' = "done"
    /\ lastSaved' = [lastSaved EXCEPT ![path] =
            [state |-> "saved", records |-> saveArg]]
    /\ UNCHANGED <<error, envVars, channelReply, playlistId, collVars,
                   fetchVars, saveArg, today, dirExists, files, path,
                   filesAtStart, saves>>

\* ------------------------------------------------------------- environment
Running == {"resolving", "collecting", "fetching", "writing"}

\* The process is terminated from outside.
Terminate ==
    /\ stage \in Running
    /\ stage' = "killed"
    /\ UNCHANGED <<error, envVars, channelReply, playlistId, collVars,
                   fetchVars, saveArg, today, fsVars, filesAtStart, saves>>

\* ------------------------------------------------------------ the pipeline
\* __main__ line 235: the run starts with get_playlist_id.
StartRun ==
    /\ stage = "not_started"
    /\ stage' = "resolving"
    /\ filesAtStart' = files
    /\ UNCHANGED <<error, envVars, channelReply, playlistId, collVars,
                   fetchVars, saveArg, today, fsVars, saves>>

Locals ==
    /\ error = "none"
    /\ channelReply = "none"
    /\ playlistId = <<>>
    /\ ids = <<>>
    /\ pageToken = 0
    /\ pageRequests = 0
    /\ idsReturned = <<>>
    /\ batchIdx = 0
    /\ extracted_data = <<>>
    /\ detailRequests = <<>>
    /\ omitted = 0
    /\ lastReply = [status |-> "none", items |-> <<>>]
    /\ dataReturned = <<>>
    /\ saveArg = <<>>
    /\ path = 0
    /\ saves = 0

Init ==
    /\ stage = "not_started"
    /\ Locals
    /\ max_result \in 1..MaxResult
    /\ playlist \in Playlists
    /\ provider \in {"paging", "endless"}
    /\ today = 1
    /\ dirExists = FALSE
    /\ files = [d \in Dates |-> Absent]
    /\ filesAtStart = files
    /\ lastSaved = [d \in Dates |-> [state |-> "none", records |-> <<>>]]

Next ==
    \/ StartRun
    \/ get_playlist_id
    \/ CollectPage
    \/ FetchBatch
    \/ FetchReturn
    \/ SaveOpen
    \/ SaveWrite
    \/ SaveClose
    \/ Terminate

Spec == Init /\ [][Next]_vars

\* The loop of get_video_ids always takes its next iteration: requests.get
\* returns or raises.
FairSpec == Spec /\ WF_vars(CollectPage)

\* ------------------------------------------------- save_to_json on its own
\* The callers (__main__ line 243, dags/main.py line 35) hand save_to_json a
\* record list; here run after run, each a call with some list.
FullStats == [k \in StatKeys |-> "0"]
NoStats == [k \in {} |-> "0"]

SaveRecords ==
    {MapItem([id |-> 1, snippet |-> Snippet(1),
              contentDetails |-> ContentDetails(1), statistics |-> d]) :
        d \in {FullStats, NoStats}}

SaveInputs == {[i \in 1..n |-> r] : n \in 0..MaxSaveLen, r \in SaveRecords}

CallSave ==
    /\ stage \in {"idle", "done", "failed", "killed"}
    /\ saves < MaxSaves
    /\ \E input \in SaveInputs : saveArg' = input
    /\ stage' = "writing"
    /\ error' = "none"
    /\ path' = 0
    /\ saves' = saves + 1
    /\ filesAtStart' = files
    /\ UNCHANGED <<envVars, channelReply, playlistId, collVars, fetchVars,
                   today, dirExists, files, lastSaved>>

InitWriter ==
    /\ stage = "idle"
    /\ Locals
    /\ max_result = 1
    /\ playlist = <<>>
    /\ provider = "paging"
    /\ today = 1
    /\ dirExists = FALSE
    /\ files = [d \in Dates |-> Absent]
    /\ filesAtStart = files
    /\ lastSaved = [d \in Dates |-> [state |-> "none", records |-> <<>>]]

NextWriter ==
    \/ CallSave
    \/ SaveOpen
    \/ SaveWrite
    \/ SaveClose
    \/ Terminate

WriterSpec == InitWriter /\ [][NextWriter]_vars

\* ================================================================= claims
\* The argument of extract_video_data, once get_video_ids has returned.
Input == idsReturned[1]

\* ------------------------------------------------------------------- C1
\* C1 as stated: when get_video_ids returns for a playlist of N items served
\* in pages of size P by a provider that omits the cursor on the last page,
\* it returns exactly the playlist, in order, after exactly ceil(N/P) page
\* requests. Fails for N = 0: the empty playlist costs one request.
C1_CeilRequests ==
    (provider = "paging" /\ idsReturned # <<>>) =>
        /\ idsReturned[1] = playlist
        /\ pageRequests = CeilDiv(Len(playlist), max_result)

\* C1 amended: the returned list is exactly the playlist, in order, and the
\* number of page requests is ceil(N/P) for N >= 1 and one for N = 0.
C1_PlaylistInOrder ==
    (provider = "paging" /\ idsReturned # <<>>) =>
        /\ idsReturned[1] = playlist
        /\ pageRequests = Max(1, CeilDiv(Len(playlist), max_result))

C1_Witness ==
    /\ provider = "paging"
    /\ max_result = 2
    /\ playlist = <<1, 2, 3>>
    /\ idsReturned = <<playlist>>
    /\ pageRequests = 2

\* ------------------------------------------------------------------- C2
\* C2: the pagination loop of get_video_ids always terminates, whatever the
\* provider does: get_video_ids, once entered, is eventually left.
C2_LoopTerminates == (stage = "collecting") ~> (stage # "collecting")

\* ------------------------------------------------------------------- C3
\* C3: extract_video_data issues ceil(M/B) requests; each carries between 1
\* and B ids, all but the last exactly B, and the requests concatenated in
\* order are the input list (while the loop runs: a prefix of it, made of
\* full chunks).
C3_ConsecutiveChunks ==
    idsReturned # <<>> =>
        LET n == Len(detailRequests)
            sent == Concat(detailRequests)
        IN  /\ \A k \in 1..n :
                /\ Len(detailRequests[k]) >= 1
                /\ Len(detailRequests[k]) <= max_result
            /\ \A k \in 1..(n - 1) : Len(detailRequests[k]) = max_result
            /\ Len(sent) <= Len(Input)
            /\ sent = SubSeq(Input, 1, Len(sent))
            /\ n = batchIdx
            /\ dataReturned # <<>> =>
                /\ sent = Input
                /\ n = CeilDiv(Len(Input), max_result)

C3_Witness ==
    /\ dataReturned # <<>>
    /\ max_result = 2
    /\ idsReturned = <<(<<1, 2, 3>>)>>
    /\ detailRequests = << <<1, 2>>, <<3>> >>

\* ------------------------------------------------------------------- C4
\* A videos request raised: the transport failed, or an item of the reply
\* lacks a key the code indexes.
ReplyRaises ==
    \/ lastReply.status \in {"connection_error", "http_error"}
    \/ \E i \in 1..Len(lastReply.items) : ItemRaises(lastReply.items[i])

\* C4: ids left out of a videos reply raise nothing and cost exactly their
\* own records: as long as no request failed in transport and no item was
\* malformed, extract_video_data has one record per id requested so far less
\* the ids left out, and what it returns has M - omitted <= M records.
C4_OmittedIdsTolerated ==
    (idsReturned # <<>> /\ ~ReplyRaises) =>
        /\ error \in {"none", "OSError"}
        /\ Len(extracted_data) = Len(Concat(detailRequests)) - omitted
        /\ dataReturned # <<>> =>
            /\ Len(dataReturned[1]) = Len(Input) - omitted
            /\ Len(dataReturned[1]) <= Len(Input)

C4_Witness ==
    /\ dataReturned # <<>>
    /\ Len(Input) = 3
    /\ max_result = 2
    /\ omitted = 1
    /\ Len(dataReturned[1]) = 2
    /\ error = "none"

\* ------------------------------------------------------------------- C5
\* C5: every item of a videos response yields a record that has the three
\* statistics keys, each holding the provider's value when supplied and None
\* when omitted, also for an item without a statistics object.
C5_AbsentStatisticIsNone ==
    LET items == lastReply.items
        base == Len(extracted_data) - Len(items)
    IN  \A i \in 1..Len(items) :
            /\ base >= 0
            /\ extracted_data[base + i].video_id = items[i].id
            /\ \A k \in StatKeys :
                extracted_data[base + i][k] =
                    IF "statistics" \in DOMAIN items[i]
                       /\ k \in DOMAIN items[i].statistics
                    THEN items[i].statistics[k]
                    ELSE None

\* ------------------------------------------------------------------- C6
\* C6: a channels reply that holds no channel makes get_playlist_id fail with
\* NotFoundError, an error other than those of a transport failure and of a
\* reply with missing fields.
C6_ZeroChannelsNotFound ==
    channelReply \in ZeroChannels =>
        /\ stage = "failed"
        /\ error = "NotFoundError"
        /\ error \notin RequestExceptions
        /\ error \notin {PlaylistOutcome(r) : r \in MalformedChannel}

\* ------------------------------------------------------------------- C7
\* C7: a transport or HTTP failure of a request of get_video_ids or of
\* extract_video_data ends the call with that error: the call returns
\* nothing to its caller, the failing request was the call's last one (no
\* retry, no further request), and the run stays failed.
C7_TransportFailureAborts ==
    [][ /\ (error = "none" /\ error' \in RequestExceptions
            /\ stage = "collecting") =>
                /\ stage' = "failed"
                /\ idsReturned' = <<>>
                /\ pageRequests' <= pageRequests + 1
                /\ detailRequests' = <<>>
        /\ (error = "none" /\ error' \in RequestExceptions
            /\ stage = "fetching") =>
                /\ stage' = "failed"
                /\ dataReturned' = <<>>
                /\ Len(detailRequests') = Len(detailRequests) + 1
                /\ saves' = 0
        /\ error \in RequestExceptions =>
                /\ stage' = "failed"
                /\ error' = error
                /\ UNCHANGED <<pageRequests, detailRequests, idsReturned,
                               dataReturned, files>>
      ]_vars

C7_Witness ==
    /\ stage = "failed"
    /\ error = "HTTPError"
    /\ Len(detailRequests) = 2
    /\ Len(extracted_data) = 2
    /\ dataReturned = <<>>
    /\ files = filesAtStart

\* ------------------------------------------------------------------- C8
\* C8: the run goes not started -> resolving -> collecting -> fetching ->
\* writing -> done, each stage holding the output of the one before, and a
\* run that failed at any stage has created or changed no output file.
C8_FailedRunLeavesNoOutput ==
    /\ stage \in {"collecting", "fetching", "writing", "done"} =>
            playlistId # <<>>
    /\ stage \in {"fetching", "writing", "done"} => idsReturned # <<>>
    /\ stage \in {"writing", "done"} =>
            (dataReturned # <<>> /\ saveArg = dataReturned[1])
    /\ stage \in {"not_started", "resolving", "collecting", "fetching"} =>
            files = filesAtStart
    /\ stage = "failed" => files = filesAtStart

\* ------------------------------------------------------------------- C9
\* C9: when save_to_json fails or the process is terminated, the file at the
\* dated path is what it was before the call (absent, or the previous
\* artifact) or the complete new document.
C9_NoPartialArtifact ==
    (stage \in {"failed", "killed"} /\ path # 0) =>
        \/ files[path] = filesAtStart[path]
        \/ files[path] = File(Doc(saveArg))

\* ------------------------------------------------------------------ C10
\* C10: a date's artifact exists exactly if a save_to_json call opened it;
\* after the last such call completed it is the complete document of exactly
\* that call's records, which reads back as those records; no artifact bears
\* a date the clock has not reached; the directory exists once a call got to
\* its path, and a call that finds it existing still succeeds.
C10_OneArtifactPerDate ==
    /\ \A d \in Dates :
        /\ lastSaved[d].state = "none" => files[d] = Absent
        /\ lastSaved[d].state = "saved" =>
            /\ files[d] = File(Doc(lastSaved[d].records))
            /\ Parse(files[d].content) = <<lastSaved[d].records>>
        /\ files[d].exists => d <= today
    /\ path # 0 => dirExists
    /\ stage = "done" =>
        /\ lastSaved[path] = [state |-> "saved", records |-> saveArg]
        /\ \A d \in Dates \ {path} : files[d] = filesAtStart[d]

C10_Witness ==
    /\ stage = "done"
    /\ filesAtStart[path].exists
    /\ Len(filesAtStart[path].content) > Len(Doc(saveArg))
    /\ Parse(filesAtStart[path].content) # <<>>
    /\ files[path] = File(Doc(saveArg))
    /\ \E d \in Dates \ {path} : files[d].exists

====
